---- MODULE Spec2Model ----
(***************************************************************************)
(* Model of LibraryManager (library_manager.py): an in-memory library      *)
(* circulation tracker.  Strings are sequences of one-character strings,   *)
(* dates are day ordinals, money is counted in thousandths of a unit.      *)
(***************************************************************************)
EXTENDS Integers, Sequences, FiniteSets, TLC

VARIABLES fine_per_day,   \* self.fine_per_day, in thousandths
          books,          \* self.books: insertion-ordered dict, as a sequence of Book
          readers,        \* self.readers: reader_id -> Reader
          active_loans,   \* self._active_loans: insertion-ordered dict <<book_id, reader_id>> -> Loan,
                          \* as a sequence of entries; a Loan object is its position in loan_history
          loan_history,   \* self._loan_history: sequence of Loan
          last,           \* the last public call: its name, arguments and outcome
          pre             \* the collections as they were when the last call began

vars == <<fine_per_day, books, readers, active_loans, loan_history, last, pre>>

(* ------------------------------ bounds -------------------------------- *)
\* Spec: copies per book, loans ever made
MaxCopies == 2
MaxLoans == 2
\* SpecFine: loans ever made, last borrow day, longest loan, last return day
MaxFineLoans == 1
MaxDay == 1
MaxLoanDays == 2
MaxReturnDay == 3

(* ------------------------------ strings ------------------------------- *)
IsSpace(c) == c = " "

RECURSIVE lstrip(_)
lstrip(s) == IF s = <<>> THEN s
             ELSE IF IsSpace(Head(s)) THEN lstrip(Tail(s)) ELSE s

RECURSIVE rstrip(_)
rstrip(s) == IF s = <<>> THEN s
             ELSE IF IsSpace(s[Len(s)]) THEN rstrip(SubSeq(s, 1, Len(s) - 1)) ELSE s

\* str.strip()
strip(s) == rstrip(lstrip(s))

(* --------------------------- errors, values --------------------------- *)
ValidationError == "ValidationError"
NotFoundError == "NotFoundError"
AlreadyExistsError == "AlreadyExistsError"
BusinessRuleError == "BusinessRuleError"

Raise(kind, msg) == [outcome |-> kind, msg |-> msg]
Return(v) == [outcome |-> "ok", msg |-> "", value |-> v]
Raised(r) == r.outcome # "ok"

\* Optional date: None is <<>>, a date d is <<d>>
None == <<>>
Some(d) == <<d>>

Book(book_id, title, author, total_copies, available_copies) ==
    [book_id |-> book_id, title |-> title, author |-> author,
     total_copies |-> total_copies, available_copies |-> available_copies]

Reader(reader_id, full_name) == [reader_id |-> reader_id, full_name |-> full_name]

Loan(book_id, reader_id, borrow_date, due_date) ==
    [book_id |-> book_id, reader_id |-> reader_id, borrow_date |-> borrow_date,
     due_date |-> due_date, returned_date |-> None]

is_active(loan) == loan.returned_date = None

(* ------------------------- dict-like helpers -------------------------- *)
\* key in self.books, self.books[key]
BookKeys(bs) == {bs[i].book_id : i \in 1..Len(bs)}
BookPos(bs, id) == CHOOSE i \in 1..Len(bs) : bs[i].book_id = id
BookOf(bs, id) == bs[BookPos(bs, id)]

\* key in self._active_loans, self._active_loans.get(key)
ActiveKeys(al) == {al[i].key : i \in 1..Len(al)}
ActivePos(al, key) == CHOOSE i \in 1..Len(al) : al[i].key = key
ActiveLoan(al, key) == al[ActivePos(al, key)].loan

\* the manager's four collections
State == [books |-> books, readers |-> readers,
          active_loans |-> active_loans, loan_history |-> loan_history]

(* ------------------------------ helpers ------------------------------- *)
require_non_empty(value, field_name) ==
    LET normalized == strip(value)
    IN IF normalized = <<>>
       THEN Raise(ValidationError, <<field_name, "must be non-empty">>)
       ELSE Return(normalized)

\* mutant: the id is validated trimmed and looked up as passed
get_book_in_raw(bs, book_id) ==
    LET id == require_non_empty(book_id, "book_id")
    IN IF Raised(id) THEN id
       ELSE IF book_id \in BookKeys(bs) THEN Return(BookOf(bs, book_id))
       ELSE Raise(NotFoundError, <<"Book", "not found">>)

get_book_in(bs, book_id) ==
    LET id == require_non_empty(book_id, "book_id")
    IN IF Raised(id) THEN id
       ELSE IF id.value \in BookKeys(bs) THEN Return(BookOf(bs, id.value))
       ELSE Raise(NotFoundError, <<"Book", "not found">>)

get_reader_in(rs, reader_id) ==
    LET id == require_non_empty(reader_id, "reader_id")
    IN IF Raised(id) THEN id
       ELSE IF id.value \in DOMAIN rs THEN Return(rs[id.value])
       ELSE Raise(NotFoundError, <<"Reader", "not found">>)

\* str.lower() on the letters the inputs use
UpperCase == <<"A", "B", "C", "D", "I", "R">>
LowerCase == <<"a", "b", "c", "d", "i", "r">>
lower_char(c) ==
    IF \E i \in 1..Len(UpperCase) : UpperCase[i] = c
    THEN LowerCase[CHOOSE i \in 1..Len(UpperCase) : UpperCase[i] = c]
    ELSE c
lower(s) == [i \in 1..Len(s) |-> lower_char(s[i])]

\* sub in s
contains(sub, s) ==
    \E i \in 0..(Len(s) - Len(sub)) : SubSeq(s, i + 1, i + Len(sub)) = sub

\* round(x, 2) of a value in thousandths: to a multiple of 10, ties to even
round2(x) ==
    LET q == x \div 10
        r == x % 10
    IN IF r < 5 THEN 10 * q
       ELSE IF r > 5 THEN 10 * (q + 1)
       ELSE IF q % 2 = 0 THEN 10 * q ELSE 10 * (q + 1)

max(a, b) == IF a >= b THEN a ELSE b

(* --------------------------- call recording --------------------------- *)
\* the call ends by raising r: nothing was assigned before the raise
Raises(op, args, r) ==
    /\ last' = [op |-> op, args |-> args, outcome |-> r.outcome, msg |-> r.msg]
    /\ pre' = State
    /\ UNCHANGED <<fine_per_day, books, readers, active_loans, loan_history>>

Returns(op, args, v) ==
    /\ last' = [op |-> op, args |-> args, outcome |-> "ok", msg |-> "", value |-> v]
    /\ pre' = State
    /\ UNCHANGED fine_per_day

Unchanged == UNCHANGED <<books, readers, active_loans, loan_history>>

(* ----------------------------- operations ----------------------------- *)
\* lines 74-89 of add_book: the checks, then the Book that is created
add_book_check(bs, book_id, title, author, total_copies) ==
    LET b == require_non_empty(book_id, "book_id")
        t == require_non_empty(title, "title")
        a == require_non_empty(author, "author")
    IN IF Raised(b) THEN b
       ELSE IF Raised(t) THEN t
       ELSE IF Raised(a) THEN a
       ELSE IF total_copies <= 0
            THEN Raise(ValidationError, <<"total_copies", "must be greater than 0">>)
       ELSE IF b.value \in BookKeys(bs)
            THEN Raise(AlreadyExistsError, <<"Book", "already exists">>)
       ELSE Return(Book(b.value, t.value, a.value, total_copies, total_copies))

\* mutant: a book id that is already present is stored again
add_book_overwrites(book_id, title, author, total_copies) ==
    LET args == [book_id |-> book_id, title |-> title, author |-> author,
                 total_copies |-> total_copies]
        r == add_book_check(books, book_id, title, author, total_copies)
        book == Book(strip(book_id), strip(title), strip(author),
                     total_copies, total_copies)
    IN IF Raised(r) /\ r.outcome = AlreadyExistsError
       THEN /\ books' = [books EXCEPT ![BookPos(books, book.book_id)] = book]
            /\ UNCHANGED <<readers, active_loans, loan_history>>
            /\ Returns("add_book", args, book)
       ELSE IF Raised(r) THEN Raises("add_book", args, r)
       ELSE /\ books' = Append(books, r.value)
            /\ UNCHANGED <<readers, active_loans, loan_history>>
            /\ Returns("add_book", args, r.value)

add_book(book_id, title, author, total_copies) ==
    LET args ==[book_id |-> book_id, title |-> title, author |-> author,
                 total_copies |-> total_copies]
        r == add_book_check(books, book_id, title, author, total_copies)
    IN IF Raised(r) THEN Raises("add_book", args, r)
       ELSE /\ books' = Append(books, r.value)
            /\ UNCHANGED <<readers, active_loans, loan_history>>
            /\ Returns("add_book", args, r.value)

\* lines 94-100 of register_reader
register_reader_check(rs, reader_id, full_name) ==
    LET i == require_non_empty(reader_id, "reader_id")
        n == require_non_empty(full_name, "full_name")
    IN IF Raised(i) THEN i
       ELSE IF Raised(n) THEN n
       ELSE IF i.value \in DOMAIN rs
            THEN Raise(AlreadyExistsError, <<"Reader", "already exists">>)
       ELSE Return(Reader(i.value, n.value))

register_reader(reader_id, full_name) ==
    LET args == [reader_id |-> reader_id, full_name |-> full_name]
        r == register_reader_check(readers, reader_id, full_name)
    IN IF Raised(r) THEN Raises("register_reader", args, r)
       ELSE /\ readers' = [k \in DOMAIN readers \cup {r.value.reader_id} |->
                              IF k = r.value.reader_id THEN r.value ELSE readers[k]]
            /\ UNCHANGED <<books, active_loans, loan_history>>
            /\ Returns("register_reader", args, r.value)

get_book(book_id) ==
    LET r == get_book_in(books, book_id)
    IN IF Raised(r) THEN Raises("get_book", [book_id |-> book_id], r)
       ELSE Unchanged /\ Returns("get_book", [book_id |-> book_id], r.value)

get_reader(reader_id) ==
    LET r == get_reader_in(readers, reader_id)
    IN IF Raised(r) THEN Raises("get_reader", [reader_id |-> reader_id], r)
       ELSE Unchanged /\ Returns("get_reader", [reader_id |-> reader_id], r.value)

\* mutant: the query is trimmed but its case is kept
search_books_in_cased(bs, query) ==
    LET q == require_non_empty(query, "query")
    IN IF Raised(q) THEN q
       ELSE LET Match(book) == \/ contains(q.value, lower(book.title))
                               \/ contains(q.value, lower(book.author))
            IN Return(SelectSeq(bs, Match))

search_books_in(bs, query) ==
    LET q == require_non_empty(query, "query")
    IN IF Raised(q) THEN q
       ELSE LET normalized_query == lower(q.value)
                Match(book) == \/ contains(normalized_query, lower(book.title))
                               \/ contains(normalized_query, lower(book.author))
            IN Return(SelectSeq(bs, Match))

search_books(query) ==
    LET r == search_books_in(books, query)
    IN IF Raised(r) THEN Raises("search_books", [query |-> query], r)
       ELSE Unchanged /\ Returns("search_books", [query |-> query], r.value)

\* mutant: available_copies is not checked
borrow_book_check_no_stock(bs, rs, al, book_id, reader_id, borrow_date, loan_days) ==
    IF loan_days <= 0
    THEN Raise(ValidationError, <<"loan_days", "must be greater than 0">>)
    ELSE LET book == get_book_in(bs, book_id)
             reader == get_reader_in(rs, reader_id)
         IN IF Raised(book) THEN book
            ELSE IF Raised(reader) THEN reader
            ELSE IF <<book.value.book_id, reader_id>> \in ActiveKeys(al)
                 THEN Raise(BusinessRuleError, <<"Reader already has this book on loan">>)
            ELSE Return(Loan(book.value.book_id, reader_id, borrow_date,
                             borrow_date + loan_days))

\* lines 127-145 of borrow_book: the checks, then the Loan that is created
borrow_book_check(bs, rs, al, book_id, reader_id, borrow_date, loan_days) ==
    IF loan_days <= 0
    THEN Raise(ValidationError, <<"loan_days", "must be greater than 0">>)
    ELSE LET book == get_book_in(bs, book_id)
             reader == get_reader_in(rs, reader_id)
         IN IF Raised(book) THEN book
            ELSE IF Raised(reader) THEN reader
            ELSE IF book.value.available_copies <= 0
                 THEN Raise(BusinessRuleError, <<"No available copies for this book">>)
            ELSE IF <<book.value.book_id, reader_id>> \in ActiveKeys(al)
                 THEN Raise(BusinessRuleError, <<"Reader already has this book on loan">>)
            ELSE Return(Loan(book.value.book_id, reader_id, borrow_date,
                             borrow_date + loan_days))

\* mutant: the copy is taken before the check for a loan of the same pair
borrow_book_decrements_first(book_id, reader_id, borrow_date, loan_days) ==
    LET args == [book_id |-> book_id, reader_id |-> reader_id,
                 borrow_date |-> borrow_date, loan_days |-> loan_days]
        r == borrow_book_check(books, readers, active_loans,
                               book_id, reader_id, borrow_date, loan_days)
        taken == [books EXCEPT
                     ![BookPos(books, strip(book_id))].available_copies = @ - 1]
    IN IF Raised(r) /\ r.msg = <<"Reader already has this book on loan">>
       THEN /\ last' = [op |-> "borrow_book", args |-> args,
                        outcome |-> r.outcome, msg |-> r.msg]
            /\ pre' = State
            /\ books' = taken
            /\ UNCHANGED <<fine_per_day, readers, active_loans, loan_history>>
       ELSE IF Raised(r) THEN Raises("borrow_book", args, r)
       ELSE /\ active_loans' = Append(active_loans,
                                      [key |-> <<r.value.book_id, reader_id>>,
                                       loan |-> Len(loan_history) + 1])
            /\ loan_history' = Append(loan_history, r.value)
            /\ books' = taken
            /\ UNCHANGED readers
            /\ Returns("borrow_book", args, r.value)

\* mutant: the borrowed copy leaves the stock, total_copies included
borrow_book_shrinks_stock(book_id, reader_id, borrow_date, loan_days) ==
    LET args ==[book_id |-> book_id, reader_id |-> reader_id,
                 borrow_date |-> borrow_date, loan_days |-> loan_days]
        r == borrow_book_check(books, readers, active_loans,
                               book_id, reader_id, borrow_date, loan_days)
    IN IF Raised(r) THEN Raises("borrow_book", args, r)
       ELSE LET loan == r.value
                key == <<loan.book_id, reader_id>>
                p == BookPos(books, loan.book_id)
            IN /\ active_loans' = Append(active_loans,
                                         [key |-> key, loan |-> Len(loan_history) + 1])
               /\ loan_history' = Append(loan_history, loan)
               /\ books' = [books EXCEPT ![p].available_copies = @ - 1,
                                         ![p].total_copies = @ - 1]
               /\ UNCHANGED readers
               /\ Returns("borrow_book", args, loan)

\* mutant: the loan is recorded and the book's count is left alone
borrow_book_keeps_stock(book_id, reader_id, borrow_date, loan_days) ==
    LET args ==[book_id |-> book_id, reader_id |-> reader_id,
                 borrow_date |-> borrow_date, loan_days |-> loan_days]
        r == borrow_book_check(books, readers, active_loans,
                               book_id, reader_id, borrow_date, loan_days)
    IN IF Raised(r) THEN Raises("borrow_book", args, r)
       ELSE LET loan == r.value
                key == <<loan.book_id, reader_id>>
            IN /\ active_loans' = Append(active_loans,
                                         [key |-> key, loan |-> Len(loan_history) + 1])
               /\ loan_history' = Append(loan_history, loan)
               /\ UNCHANGED <<books, readers>>
               /\ Returns("borrow_book", args, loan)

borrow_book(book_id, reader_id, borrow_date, loan_days) ==
    LET args ==[book_id |-> book_id, reader_id |-> reader_id,
                 borrow_date |-> borrow_date, loan_days |-> loan_days]
        r == borrow_book_check(books, readers, active_loans,
                               book_id, reader_id, borrow_date, loan_days)
    IN IF Raised(r) THEN Raises("borrow_book", args, r)
       ELSE LET loan == r.value
                key == <<loan.book_id, reader_id>>
                p == BookPos(books, loan.book_id)
            IN /\ active_loans' = Append(active_loans,
                                         [key |-> key, loan |-> Len(loan_history) + 1])
               /\ loan_history' = Append(loan_history, loan)
               /\ books' = [books EXCEPT ![p].available_copies = @ - 1]
               /\ UNCHANGED readers
               /\ Returns("borrow_book", args, loan)

\* mutant: the book and the reader are looked up before the loan
return_book_check_lookup(al, book_id, reader_id) ==
    LET book == get_book_in(books, book_id)
        reader == get_reader_in(readers, reader_id)
    IN IF Raised(book) THEN book
       ELSE IF Raised(reader) THEN reader
       ELSE IF <<book.value.book_id, reader.value.reader_id>> \notin ActiveKeys(al)
            THEN Raise(BusinessRuleError,
                       <<"Active loan for this book and reader was not found">>)
       ELSE Return(<<book.value.book_id, reader.value.reader_id>>)

\* lines 152-155 of return_book: the key, or the error
return_book_check(al, book_id, reader_id) ==
    LET b == require_non_empty(book_id, "book_id")
        r == require_non_empty(reader_id, "reader_id")
    IN IF Raised(b) THEN b
       ELSE IF Raised(r) THEN r
       ELSE IF <<b.value, r.value>> \notin ActiveKeys(al)
            THEN Raise(BusinessRuleError,
                       <<"Active loan for this book and reader was not found">>)
       ELSE Return(<<b.value, r.value>>)

\* mutant: the overdue days are not clamped at 0
return_book_result_no_clamp(loan, return_date, rate) ==
    LET overdue_days == return_date - loan.due_date
        fine_amount == round2(overdue_days * rate)
    IN [overdue_days |-> overdue_days, fine_amount |-> fine_amount]

\* lines 161-163 of return_book: the dict that is returned
return_book_result(loan, return_date, rate) ==
    LET overdue_days == max(return_date - loan.due_date, 0)
        fine_amount == round2(overdue_days * rate)
    IN [overdue_days |-> overdue_days, fine_amount |-> fine_amount]

\* mutant: the returned loan stays in the active-loan index
return_book_keeps_key(book_id, reader_id, return_date) ==
    LET args == [book_id |-> book_id, reader_id |-> reader_id,
                 return_date |-> return_date]
        r == return_book_check(active_loans, book_id, reader_id)
    IN IF Raised(r) THEN Raises("return_book", args, r)
       ELSE LET key == r.value
                i == ActiveLoan(active_loans, key)
                loan == loan_history[i]
                p == BookPos(books, loan.book_id)
            IN /\ loan_history' = [loan_history EXCEPT ![i].returned_date = Some(return_date)]
               /\ books' = [books EXCEPT ![p].available_copies = @ + 1]
               /\ UNCHANGED <<readers, active_loans>>
               /\ Returns("return_book", args,
                          return_book_result(loan, return_date, fine_per_day))

\* mutant: the return is logged as one more history entry
return_book_logs_return(book_id, reader_id, return_date) ==
    LET args == [book_id |-> book_id, reader_id |-> reader_id,
                 return_date |-> return_date]
        r == return_book_check(active_loans, book_id, reader_id)
    IN IF Raised(r) THEN Raises("return_book", args, r)
       ELSE LET key == r.value
                i == ActiveLoan(active_loans, key)
                loan == loan_history[i]
                p == BookPos(books, loan.book_id)
                returned == [loan EXCEPT !.returned_date = Some(return_date)]
            IN /\ loan_history' = Append([loan_history EXCEPT ![i] = returned], returned)
               /\ books' = [books EXCEPT ![p].available_copies = @ + 1]
               /\ active_loans' = SelectSeq(active_loans, LAMBDA e : e.key # key)
               /\ UNCHANGED readers
               /\ Returns("return_book", args,
                          return_book_result(loan, return_date, fine_per_day))

\* mutant: every active loan of the book is stamped with the return date
return_book_stamps_book(book_id, reader_id, return_date) ==
    LET args == [book_id |-> book_id, reader_id |-> reader_id,
                 return_date |-> return_date]
        r == return_book_check(active_loans, book_id, reader_id)
    IN IF Raised(r) THEN Raises("return_book", args, r)
       ELSE LET key == r.value
                i == ActiveLoan(active_loans, key)
                loan == loan_history[i]
                p == BookPos(books, loan.book_id)
            IN /\ loan_history' =
                     [j \in 1..Len(loan_history) |->
                        IF /\ loan_history[j].book_id = loan.book_id
                           /\ is_active(loan_history[j])
                        THEN [loan_history[j] EXCEPT !.returned_date = Some(return_date)]
                        ELSE loan_history[j]]
               /\ books' = [books EXCEPT ![p].available_copies = @ + 1]
               /\ active_loans' = SelectSeq(active_loans, LAMBDA e : e.key # key)
               /\ UNCHANGED readers
               /\ Returns("return_book", args,
                          return_book_result(loan, return_date, fine_per_day))

return_book(book_id, reader_id, return_date) ==
    LET args == [book_id |-> book_id, reader_id |-> reader_id,
                 return_date |-> return_date]
        r == return_book_check(active_loans, book_id, reader_id)
    IN IF Raised(r) THEN Raises("return_book", args, r)
       ELSE LET key == r.value
                i == ActiveLoan(active_loans, key)
                loan == loan_history[i]
                p == BookPos(books, loan.book_id)
            IN /\ loan_history' = [loan_history EXCEPT ![i].returned_date = Some(return_date)]
               /\ books' = [books EXCEPT ![p].available_copies = @ + 1]
               /\ active_loans' = SelectSeq(active_loans, LAMBDA e : e.key # key)
               /\ UNCHANGED readers
               /\ Returns("return_book", args,
                          return_book_result(loan, return_date, fine_per_day))

\* mutant: the days are counted from return_date to due_date
calculate_fine_value_swapped(due_date, return_date, rate) ==
    LET overdue_days == max(due_date - return_date, 0)
    IN round2(overdue_days * rate)

\* lines 166-167 of calculate_fine
calculate_fine_value(due_date, return_date, rate) ==
    LET overdue_days == max(return_date - due_date, 0)
    IN round2(overdue_days * rate)

calculate_fine(due_date, return_date) ==
    /\ Unchanged
    /\ Returns("calculate_fine", [due_date |-> due_date, return_date |-> return_date],
               calculate_fine_value(due_date, return_date, fine_per_day))

\* the Loan objects of the index, in its order
active_values(al, lh) == [i \in 1..Len(al) |-> lh[al[i].loan]]

get_active_loans ==
    Unchanged /\ Returns("get_active_loans", <<>>, active_values(active_loans, loan_history))

get_reader_active_loans_in(rs, al, lh, reader_id) ==
    LET id == require_non_empty(reader_id, "reader_id")
    IN IF Raised(id) THEN id
       ELSE LET reader == get_reader_in(rs, id.value)
            IN IF Raised(reader) THEN reader
               ELSE Return(SelectSeq(active_values(al, lh),
                                     LAMBDA loan : loan.reader_id = id.value))

get_reader_active_loans(reader_id) ==
    LET r == get_reader_active_loans_in(readers, active_loans, loan_history, reader_id)
    IN IF Raised(r) THEN Raises("get_reader_active_loans", [reader_id |-> reader_id], r)
       ELSE Unchanged /\ Returns("get_reader_active_loans", [reader_id |-> reader_id], r.value)

get_loan_history ==
    Unchanged /\ Returns("get_loan_history", <<>>, loan_history)

(* ------------------------------- inputs ------------------------------- *)
B1 == <<"B", "1">>
B2 == <<"B", "2">>
R1 == <<"R", "1">>
Title1 == <<" ", "A", "b">>
Author1 == <<"C", "d", " ">>
Name1 == <<"I", "v">>
BookIdArgs == {B1, <<" ">> \o B1, B2, <<" ">>}
ReaderIdArgs == {R1, R1 \o <<" ">>, <<>>}
QueryArgs == {<<" ", "a">>, <<"D", "C">>, <<" ">>}
\* under Spec every loan is made and returned on one day, for one day
Day == {0}
LoanDaysArgs == {1}
\* fine_per_day of 0.0, 0.125, 0.375 and 10.0, in thousandths
Rates == {0, 125, 375, 10000}

AddBookArgs ==
    {<<b, Title1, Author1, n>> : b \in {B1, B2}, n \in 0..MaxCopies}
    \cup {<<b, Title1, Author1, 1>> : b \in BookIdArgs}
    \cup {<<B1, <<" ", " ">>, Author1, 1>>, <<B1, Title1, <<>>, 1>>}
RegisterReaderArgs ==
    {<<r, Name1>> : r \in ReaderIdArgs} \cup {<<R1, <<" ">>>>}
BorrowBookArgs ==
    {<<b, r, d, n>> : b \in BookIdArgs, r \in ReaderIdArgs, d \in Day, n \in LoanDaysArgs}
    \cup {<<b, r, 0, 0>> : b \in {B1, <<" ">>}, r \in {R1, <<>>}}
ReturnBookArgs ==
    {<<b, r, d>> : b \in BookIdArgs, r \in ReaderIdArgs, d \in Day}

\* borrow_book, but a borrow that would make one loan more than cap is left
\* out of the model
borrow_book_within(cap, a) ==
    /\ \/ Len(loan_history) < cap
       \/ Raised(borrow_book_check(books, readers, active_loans, a[1], a[2], a[3], a[4]))
    /\ borrow_book(a[1], a[2], a[3], a[4])

Empty == [books |-> <<>>, readers |-> <<>>, active_loans |-> <<>>, loan_history |-> <<>>]

\* LibraryManager(fine_per_day=10.0)
Init ==
    /\ fine_per_day = 10000
    /\ books = <<>>
    /\ readers = <<>>
    /\ active_loans = <<>>
    /\ loan_history = <<>>
    /\ last = [op |-> "__init__", args |-> <<>>, outcome |-> "ok", msg |-> ""]
    /\ pre = Empty

Next ==
    \/ \E a \in AddBookArgs : add_book(a[1], a[2], a[3], a[4])
    \/ \E a \in RegisterReaderArgs : register_reader(a[1], a[2])
    \/ \E b \in BookIdArgs : get_book(b)
    \/ \E r \in ReaderIdArgs : get_reader(r)
    \/ \E q \in QueryArgs : search_books(q)
    \/ \E a \in BorrowBookArgs : borrow_book_within(MaxLoans, a)
    \/ \E a \in ReturnBookArgs : return_book(a[1], a[2], a[3])
    \/ \E d \in Day : calculate_fine(d, d)
    \/ get_active_loans
    \/ \E r \in ReaderIdArgs : get_reader_active_loans(r)
    \/ get_loan_history

Spec == Init /\ [][Next]_vars

(* ------------------- fines: one book, one reader ---------------------- *)
\* LibraryManager(fine_per_day=rate) for a rate of Rates
InitFine ==
    /\ fine_per_day \in Rates
    /\ books = <<>>
    /\ readers = <<>>
    /\ active_loans = <<>>
    /\ loan_history = <<>>
    /\ last = [op |-> "__init__", args |-> <<>>, outcome |-> "ok", msg |-> ""]
    /\ pre = Empty

FineBorrowArgs == {<<B1, R1, d, n>> : d \in 0..MaxDay, n \in 0..MaxLoanDays}

NextFine ==
    \/ add_book(B1, Title1, Author1, 1)
    \/ register_reader(R1, Name1)
    \/ \E a \in FineBorrowArgs : borrow_book_within(MaxFineLoans, a)
    \/ \E d \in 0..MaxReturnDay : return_book(B1, R1, d)
    \/ \E d \in 0..MaxDay, e \in 0..MaxReturnDay : calculate_fine(d, e)

SpecFine == InitFine /\ [][NextFine]_vars

(* ------------------ search: three books, no loans --------------------- *)
B3 == <<"B", "3">>
\* title and author of the books on the shelf
SearchBooks == {<<<<"A", "b">>, <<"C", "d">>>>,
                <<<<"b", "C">>, <<"a">>>>,
                <<<<"D", " ", "a">>, <<"B">>>>}
SearchAddArgs == {<<b, t[1], t[2], 1>> : b \in {B1, B2, B3}, t \in SearchBooks}
SearchQueryArgs == {<<" ", "a", "B">>, <<"b", "c">>, <<"A">>, <<"d", " ">>,
                    <<" ", " ">>, <<"a", "b", "c">>}

NextSearch ==
    \/ \E a \in SearchAddArgs : add_book(a[1], a[2], a[3], a[4])
    \/ \E q \in SearchQueryArgs : search_books(q)

SpecSearch == Init /\ [][NextSearch]_vars

(* ------------- borrowing: two books, dated loans ---------------------- *)
\* book_id, reader_id, borrow_date, loan_days
DatedBorrowArgs == {<<B1, R1, 0, 1>>, <<B2, R1, 1, 2>>,
                    <<B2, R1 \o <<" ">>, 0, 2>>, <<<<" ">> \o B1, R1, 1, 0>>}

NextBorrow ==
    \/ add_book(B1, Title1, Author1, 1)
    \/ add_book(B2, Title1, Author1, 2)
    \/ register_reader(R1, Name1)
    \/ \E a \in DatedBorrowArgs : borrow_book_within(MaxLoans, a)
    \/ \E b \in {B1, B2} : return_book(b, R1, 3)

SpecBorrow == Init /\ [][NextBorrow]_vars

(* ------------------------------ claims -------------------------------- *)
Called(op) == last.op = op
Succeeded(op) == last.op = op /\ last.outcome = "ok"
Failed(op, kind) == last.op = op /\ last.outcome = kind
NoAvailableCopies == <<"No available copies for this book">>
AlreadyOnLoan == <<"Reader already has this book on loan">>
\* the reader a loan was made to: borrow_book accepted reader_id because its
\* trimmed form is registered
LoanReader(loan) == strip(loan.reader_id)
\* the active loans of a history between a book and a reader
ActiveBetween(lh, b, r) ==
    {i \in 1..Len(lh) : is_active(lh[i]) /\ lh[i].book_id = b /\ LoanReader(lh[i]) = r}
ReturnedFor(lh, b, r) ==
    {i \in 1..Len(lh) : ~is_active(lh[i]) /\ lh[i].book_id = b /\ lh[i].reader_id = r}
Abs(x) == IF x < 0 THEN -x ELSE x
\* y is x (thousandths) rounded to two decimals, ties to the even cent
IsRounded2(x, y) ==
    /\ y % 10 = 0
    /\ Abs(y - x) <= 5
    /\ Abs(y - x) = 5 => (y \div 10) % 2 = 0

\* C1: every stored Book has 0 <= available_copies <= total_copies, in every
\* state reachable by add_book, register_reader, borrow_book and return_book.
C1_CopiesInRange ==
    \A i \in 1..Len(books) :
        /\ 0 <= books[i].available_copies
        /\ books[i].available_copies <= books[i].total_copies

\* a borrow refused for want of copies, after a loan has been made and returned
C1_Witness ==
    /\ Failed("borrow_book", BusinessRuleError)
    /\ last.msg = NoAvailableCopies
    /\ \E i \in 1..Len(loan_history) : ~is_active(loan_history[i])

\* C2: a book and a registered reader have at most one active loan between
\* them, whatever whitespace surrounded the ids that were passed.
C2_OneActiveLoanPerPair ==
    \A b \in BookKeys(books), r \in DOMAIN readers :
        Cardinality(ActiveBetween(loan_history, b, r)) <= 1

\* C3: borrow_book followed by return_book for the same book and reader
\* restores available_copies, leaves no active loan for the pair in the
\* index, and leaves the loan in the history with returned_date set.
C3_BorrowReturnRoundTrip ==
    [][(/\ Succeeded("borrow_book")
        /\ last'.op = "return_book"
        /\ last'.args.book_id = last.args.book_id
        /\ last'.args.reader_id = last.args.reader_id)
       => LET b == strip(last.args.book_id)
              n == Len(loan_history')
          IN /\ last'.outcome = "ok"
             /\ BookOf(books', b).available_copies = BookOf(pre.books, b).available_copies
             /\ \A i \in 1..Len(active_loans') :
                   ~(/\ active_loans'[i].key[1] = b
                     /\ strip(active_loans'[i].key[2]) = strip(last.args.reader_id))
             /\ loan_history'[n].returned_date = Some(last'.args.return_date)]_vars

\* C4: once return_book has succeeded for a pair, a second return_book for
\* that pair with no borrow_book in between raises BusinessRuleError and
\* changes nothing.  A pair is in that situation when the history holds a
\* returned loan of the pair and no active one.
C4_Returned(lh, b, r) ==
    /\ ReturnedFor(lh, b, r) # {}
    /\ \A i \in 1..Len(lh) : lh[i].book_id = b /\ lh[i].reader_id = r => ~is_active(lh[i])

C4_SecondReturnFails ==
    Called("return_book") /\ C4_Returned(pre.loan_history, strip(last.args.book_id),
                                         strip(last.args.reader_id))
    => /\ last.outcome = BusinessRuleError
       /\ State = pre

C4_Witness ==
    /\ Called("return_book")
    /\ C4_Returned(pre.loan_history, strip(last.args.book_id), strip(last.args.reader_id))
    /\ last.outcome = BusinessRuleError

\* C5: return_book with non-empty ids and no active loan under them raises
\* BusinessRuleError, also for an unregistered book or reader id (never
\* NotFoundError), and changes nothing; an id that is empty after trimming
\* raises ValidationError instead.
C5_ReturnWithoutLoan ==
    Called("return_book")
    => LET b == strip(last.args.book_id)
           r == strip(last.args.reader_id)
       IN /\ (b = <<>> \/ r = <<>>)
             => last.outcome = ValidationError /\ State = pre
          /\ (b # <<>> /\ r # <<>> /\ <<b, r>> \notin ActiveKeys(pre.active_loans))
             => last.outcome = BusinessRuleError /\ State = pre

\* a return for a book id that was never registered, with loans on record
C5_Witness ==
    /\ Failed("return_book", BusinessRuleError)
    /\ strip(last.args.book_id) \notin BookKeys(books)
    /\ strip(last.args.reader_id) \in DOMAIN readers
    /\ loan_history # <<>>

\* C6 as stated: a successful return_book returns overdue_days =
\* max(0, return_date - due_date) and fine_amount = overdue_days * fine_per_day,
\* with due_date = borrow_date + loan_days of the loan being returned.
C6_Returned == pre.loan_history[ActiveLoan(pre.active_loans,
                   <<strip(last.args.book_id), strip(last.args.reader_id)>>)]

C6_DueDate ==
    Succeeded("borrow_book")
    => loan_history[Len(loan_history)].due_date = last.args.borrow_date + last.args.loan_days

C6_FineIsProduct ==
    /\ C6_DueDate
    /\ Succeeded("return_book")
       => LET overdue == max(0, last.args.return_date - C6_Returned.due_date)
          IN /\ last.value.overdue_days = overdue
             /\ last.value.fine_amount = overdue * fine_per_day

\* C6 as amended: fine_amount is overdue_days * fine_per_day rounded to two
\* decimals, ties to the even cent; on or before the due date both are 0.
C6_FineIsRoundedProduct ==
    /\ C6_DueDate
    /\ Succeeded("return_book")
       => LET overdue == max(0, last.args.return_date - C6_Returned.due_date)
          IN /\ last.value.overdue_days = overdue
             /\ IsRounded2(overdue * fine_per_day, last.value.fine_amount)
             /\ last.args.return_date <= C6_Returned.due_date
                => last.value.overdue_days = 0 /\ last.value.fine_amount = 0

\* a late return whose fine is not the plain product
C6_Witness ==
    /\ Succeeded("return_book")
    /\ last.value.overdue_days > 0
    /\ last.value.fine_amount # last.value.overdue_days * fine_per_day

\* C7 as stated: calculate_fine(due_date, return_date) is
\* max(0, return_date - due_date) * fine_per_day: 0 when return_date <= due_date,
\* never negative, and no state is read or changed.
C7_CalculateFineIsProduct ==
    Succeeded("calculate_fine")
    => /\ last.value = max(0, last.args.return_date - last.args.due_date) * fine_per_day
       /\ State = pre

\* C7 as amended: the product rounded to two decimals, ties to the even cent.
C7_CalculateFineIsRoundedProduct ==
    Called("calculate_fine")
    => /\ last.outcome = "ok"
       /\ IsRounded2(max(0, last.args.return_date - last.args.due_date) * fine_per_day,
                     last.value)
       /\ last.args.return_date <= last.args.due_date => last.value = 0
       /\ last.value >= 0
       /\ State = pre

\* a fine that rounding changed, computed while a loan is on record
C7_Witness ==
    /\ Succeeded("calculate_fine")
    /\ last.args.return_date > last.args.due_date
    /\ last.value # (last.args.return_date - last.args.due_date) * fine_per_day
    /\ loan_history # <<>>

\* C8: borrow_book reports the first failing precondition, in the order
\* loan_days > 0 (ValidationError), book known (NotFoundError), reader known
\* (NotFoundError), a copy available (BusinessRuleError, no copies), no active
\* loan of the pair (BusinessRuleError, already on loan).  Ids that are empty
\* after trimming are left out: the claim does not speak of them.
C8_CheckOrder ==
    Called("borrow_book")
    => LET b == strip(last.args.book_id)
           r == strip(last.args.reader_id)
       IN IF last.args.loan_days <= 0 THEN last.outcome = ValidationError
          ELSE IF b = <<>> \/ r = <<>> THEN TRUE
          ELSE IF b \notin BookKeys(pre.books) THEN last.outcome = NotFoundError
          ELSE IF r \notin DOMAIN pre.readers THEN last.outcome = NotFoundError
          ELSE IF BookOf(pre.books, b).available_copies = 0
               THEN last.outcome = BusinessRuleError /\ last.msg = NoAvailableCopies
          ELSE IF ActiveBetween(pre.loan_history, b, r) # {}
               THEN last.outcome = BusinessRuleError /\ last.msg = AlreadyOnLoan
          ELSE TRUE

\* C9: a public call that ends in an error leaves the book mapping, the
\* reader mapping, the active-loan index and the history as they were.
C9_ErrorsChangeNothing ==
    last.outcome # "ok" => State = pre

\* a refused call made while books, readers and loans are on record
C9_Witness ==
    /\ last.outcome = BusinessRuleError
    /\ active_loans # <<>>
    /\ \E i \in 1..Len(loan_history) : ~is_active(loan_history[i])

\* C10 as stated: add_book (register_reader) with a trimmed id that is
\* already registered raises AlreadyExistsError and leaves the stored entity
\* as it was.
C10_DuplicateIsAlreadyExists ==
    /\ (Called("add_book") /\ strip(last.args.book_id) \in BookKeys(pre.books))
       => last.outcome = AlreadyExistsError /\ State = pre
    /\ (Called("register_reader") /\ strip(last.args.reader_id) \in DOMAIN pre.readers)
       => last.outcome = AlreadyExistsError /\ State = pre

\* C10 as amended: the call raises ValidationError when another argument is
\* invalid (title, author or full_name empty after trimming, total_copies <= 0)
\* and AlreadyExistsError otherwise; either way the stored entity is as it was.
C10_DuplicateIsRefused ==
    /\ (Called("add_book") /\ strip(last.args.book_id) \in BookKeys(pre.books))
       => /\ last.outcome =
                IF \/ strip(last.args.title) = <<>>
                   \/ strip(last.args.author) = <<>>
                   \/ last.args.total_copies <= 0
                THEN ValidationError ELSE AlreadyExistsError
          /\ State = pre
    /\ (Called("register_reader") /\ strip(last.args.reader_id) \in DOMAIN pre.readers)
       => /\ last.outcome =
                IF strip(last.args.full_name) = <<>>
                THEN ValidationError ELSE AlreadyExistsError
          /\ State = pre

\* a book with a copy on loan is added again
C10_Witness ==
    /\ Failed("add_book", AlreadyExistsError)
    /\ LET book == BookOf(books, strip(last.args.book_id))
       IN book.available_copies < book.total_copies

\* the fields a Loan is created with; returned_date is the one that changes
LoanMade(loan) == <<loan.book_id, loan.reader_id, loan.borrow_date, loan.due_date>>
LoanKey(loan) == <<loan.book_id, loan.reader_id>>
\* the argument pair of the last borrow_book or return_book call, trimmed
ArgPair == <<strip(last.args.book_id), strip(last.args.reader_id)>>

\* C11: ids are normalized before every lookup or creation, so every loan of
\* the history and every key of the active-loan index names a key of the book
\* mapping and a key of the reader mapping, whatever whitespace was passed.
C11_LoansNameRegisteredIds ==
    /\ \A i \in 1..Len(loan_history) :
          /\ loan_history[i].book_id \in BookKeys(books)
          /\ loan_history[i].reader_id \in DOMAIN readers
    /\ \A k \in 1..Len(active_loans) :
          /\ active_loans[k].key[1] \in BookKeys(books)
          /\ active_loans[k].key[2] \in DOMAIN readers

\* C12: the history is append-only.  The history before a call is a prefix
\* of the history after it (the same loans at the same positions), and its
\* length grows by 1 on a successful borrow_book and by 0 on any other call.
C12_HistoryAppendOnly ==
    /\ Len(loan_history) =
          Len(pre.loan_history) + (IF Succeeded("borrow_book") THEN 1 ELSE 0)
    /\ \A i \in 1..Len(pre.loan_history) :
          /\ i <= Len(loan_history)
          /\ LoanMade(loan_history[i]) = LoanMade(pre.loan_history[i])
          /\ ~Succeeded("return_book") => loan_history[i] = pre.loan_history[i]

\* a loan is appended to a history that holds a returned loan
C12_Witness ==
    /\ Succeeded("borrow_book")
    /\ Len(loan_history) > 1
    /\ ~is_active(loan_history[1])
    /\ is_active(loan_history[Len(loan_history)])
    /\ loan_history[Len(loan_history)] = last.value

\* C13: a loan goes from active to returned and never back.  returned_date
\* changes only from absent to return_date, only in a successful return_book
\* for the loan's own pair, and in one loan per call; a returned loan never
\* changes again and is never in the active-loan index; a later borrow of the
\* pair puts a new loan in the index.
C13_Changed ==
    {i \in 1..Len(pre.loan_history) :
        loan_history[i].returned_date # pre.loan_history[i].returned_date}

C13_Lifecycle ==
    /\ \A i \in 1..Len(pre.loan_history) :
          ~is_active(pre.loan_history[i]) => loan_history[i] = pre.loan_history[i]
    /\ \A i \in C13_Changed :
          /\ is_active(pre.loan_history[i])
          /\ Succeeded("return_book")
          /\ ArgPair = LoanKey(pre.loan_history[i])
          /\ loan_history[i].returned_date = Some(last.args.return_date)
    /\ Succeeded("return_book") => Cardinality(C13_Changed) = 1
    /\ \A k \in 1..Len(active_loans) : is_active(loan_history[active_loans[k].loan])
    /\ Succeeded("borrow_book")
       => active_loans[Len(active_loans)].loan = Len(pre.loan_history) + 1

\* a pair borrows again after its loan was returned: two loans, the first
\* still returned
C13_Witness ==
    /\ Succeeded("borrow_book")
    /\ Len(loan_history) = 2
    /\ LoanKey(loan_history[1]) = LoanKey(loan_history[2])
    /\ ~is_active(loan_history[1])
    /\ is_active(loan_history[2])

\* C14: get_book(id) returns the book stored under the trimmed id when there
\* is one, raises ValidationError when the id is empty after trimming and
\* NotFoundError when the trimmed id is not registered; get_reader likewise;
\* neither changes the books, readers, index or history.
C14_GetBook ==
    Called("get_book") =>
        LET id == strip(last.args.book_id)
        IN /\ State = pre
           /\ IF id = <<>> THEN Failed("get_book", ValidationError)
              ELSE IF \E i \in 1..Len(books) : books[i].book_id = id
                   THEN /\ Succeeded("get_book")
                        /\ \E i \in 1..Len(books) : books[i] = last.value
                        /\ last.value.book_id = id
              ELSE Failed("get_book", NotFoundError)

C14_GetReader ==
    Called("get_reader") =>
        LET id == strip(last.args.reader_id)
        IN /\ State = pre
           /\ IF id = <<>> THEN Failed("get_reader", ValidationError)
              ELSE IF id \in DOMAIN readers
                   THEN /\ Succeeded("get_reader")
                        /\ last.value = readers[id]
                        /\ last.value.reader_id = id
              ELSE Failed("get_reader", NotFoundError)

C14_Lookups == C14_GetBook /\ C14_GetReader

\* a book is found under an id passed with surrounding whitespace
C14_Witness ==
    /\ Succeeded("get_book")
    /\ last.args.book_id # strip(last.args.book_id)
    /\ last.value.book_id = strip(last.args.book_id)

\* C15: search_books(query) returns exactly the stored books whose title or
\* author contains the trimmed query as a substring, ignoring letter case, in
\* the order the books were added; a query that is empty after trimming
\* raises ValidationError.
C15_SameLetter(a, b) ==
    \/ a = b
    \/ \E i \in 1..Len(UpperCase) : {a, b} = {UpperCase[i], LowerCase[i]}

C15_Within(q, text) ==
    \E k \in 0..(Len(text) - Len(q)) :
        \A j \in 1..Len(q) : C15_SameLetter(q[j], text[k + j])

C15_Matches(q, book) == C15_Within(q, book.title) \/ C15_Within(q, book.author)

C15_SearchBooks ==
    Called("search_books") =>
        LET q == strip(last.args.query)
        IN IF q = <<>> THEN Failed("search_books", ValidationError)
           ELSE /\ Succeeded("search_books")
                /\ \A i \in 1..Len(last.value) :
                      /\ \E p \in 1..Len(books) : books[p] = last.value[i]
                      /\ C15_Matches(q, last.value[i])
                /\ \A p \in 1..Len(books) :
                      C15_Matches(q, books[p])
                      => \E i \in 1..Len(last.value) : last.value[i] = books[p]
                /\ \A i, j \in 1..Len(last.value) :
                      i < j => BookPos(books, last.value[i].book_id)
                               < BookPos(books, last.value[j].book_id)

\* of three books the first and the third are found, in that order, by a
\* query whose case and surrounding whitespace differ from the stored text
C15_Witness ==
    /\ Succeeded("search_books")
    /\ Len(books) = 3
    /\ last.value = <<books[1], books[3]>>
    /\ last.args.query # strip(last.args.query)
    /\ ~contains(strip(last.args.query), books[1].title)
    /\ ~contains(strip(last.args.query), books[1].author)

\* C16: a successful borrow_book creates one loan with due_date =
\* borrow_date + loan_days and no returned_date, appends it as the last
\* history entry, inserts it in the active-loan index and takes 1 from the
\* borrowed book's available_copies; every other book, every reader, every
\* other loan and the book's total_copies are as before the call.
C16_BorrowFrame ==
    Succeeded("borrow_book") =>
        LET n == Len(pre.loan_history)
            m == Len(pre.active_loans)
            loan == loan_history[n + 1]
        IN /\ Len(loan_history) = n + 1
           /\ SubSeq(loan_history, 1, n) = pre.loan_history
           /\ last.value = loan
           /\ loan.book_id = strip(last.args.book_id)
           /\ loan.borrow_date = last.args.borrow_date
           /\ loan.due_date = last.args.borrow_date + last.args.loan_days
           /\ loan.returned_date = None
           /\ Len(active_loans) = m + 1
           /\ SubSeq(active_loans, 1, m) = pre.active_loans
           /\ active_loans[m + 1].loan = n + 1
           /\ readers = pre.readers
           /\ Len(books) = Len(pre.books)
           /\ \A p \in 1..Len(books) :
                 IF pre.books[p].book_id = loan.book_id
                 THEN /\ books[p].available_copies = pre.books[p].available_copies - 1
                      /\ books[p].total_copies = pre.books[p].total_copies
                      /\ books[p] = [pre.books[p] EXCEPT
                                        !.available_copies = books[p].available_copies]
                 ELSE books[p] = pre.books[p]

\* the second loan is made on day 1 for 2 days while another book and
\* another loan exist
C16_Witness ==
    /\ Succeeded("borrow_book")
    /\ Len(books) = 2
    /\ Len(loan_history) = 2
    /\ loan_history[2].borrow_date = 1
    /\ loan_history[2].due_date = 3
    /\ loan_history[1].book_id # loan_history[2].book_id

\* C17: the active-loan index holds exactly the loans of the history whose
\* returned_date is absent: every loan get_active_loans returns is an active
\* loan of the history, and every active loan of the history is returned by
\* get_active_loans.
C17_Indexed == {active_loans[k].loan : k \in 1..Len(active_loans)}

C17_IndexIsActiveHistory ==
    /\ C17_Indexed = {i \in 1..Len(loan_history) : is_active(loan_history[i])}
    /\ Cardinality(C17_Indexed) = Len(active_loans)
    /\ Succeeded("get_active_loans") =>
          /\ Len(last.value) = Len(active_loans)
          /\ \A k \in 1..Len(last.value) :
                /\ is_active(last.value[k])
                /\ \E i \in 1..Len(loan_history) : loan_history[i] = last.value[k]
          /\ \A i \in 1..Len(loan_history) :
                is_active(loan_history[i])
                => \E k \in 1..Len(last.value) : last.value[k] = loan_history[i]

\* get_active_loans is called when one loan was returned and one is active
C17_Witness ==
    /\ Succeeded("get_active_loans")
    /\ Len(loan_history) = 2
    /\ ~is_active(loan_history[1])
    /\ last.value = <<loan_history[2]>>

\* C18: for every book, available_copies = total_copies - (the number of
\* active loans of that book); so a book never has more active loans than
\* total_copies, and available_copies never exceeds total_copies.
C18_ActiveLoansOf(book_id) ==
    Cardinality({k \in 1..Len(active_loans) :
                    loan_history[active_loans[k].loan].book_id = book_id})

C18_CopiesAccounted ==
    \A p \in 1..Len(books) :
        /\ books[p].available_copies
              = books[p].total_copies - C18_ActiveLoansOf(books[p].book_id)
        /\ C18_ActiveLoansOf(books[p].book_id) <= books[p].total_copies
        /\ books[p].available_copies <= books[p].total_copies

\* a copy comes back while another copy of the same book is still on loan
C18_Witness ==
    /\ Succeeded("return_book")
    /\ \E p \in 1..Len(books) :
          /\ books[p].total_copies = 2
          /\ books[p].available_copies = 1
          /\ C18_ActiveLoansOf(books[p].book_id) = 1

\* C19: every active loan can be returned: for each loan of the active-loan
\* index, return_book(loan.book_id, loan.reader_id, d) succeeds, so no copy
\* stays unavailable for ever.
C19_ActiveLoanReturnable ==
    \A k \in 1..Len(active_loans) :
        LET loan == loan_history[active_loans[k].loan]
        IN ~Raised(return_book_check(active_loans, loan.book_id, loan.reader_id))

\* C20: after return_book succeeds for a book and a reader, a following
\* borrow_book for the same book and reader with loan_days > 0 succeeds,
\* however the ids are spaced.
C20_ReborrowSucceeds ==
    Succeeded("return_book") =>
        \A b \in BookIdArgs, r \in ReaderIdArgs, d \in Day, n \in LoanDaysArgs :
            (<<strip(b), strip(r)>> = ArgPair /\ n > 0)
            => ~Raised(borrow_book_check(books, readers, active_loans, b, r, d, n))

====
